---- MODULE Spec2Model ----
(***************************************************************************)
(* A model of the CSV to VCard 2.1 converter of src/src/main.rs.           *)
(*                                                                         *)
(* Text (String, &str, Path, PathBuf, file contents) is a sequence of      *)
(* one-character strings, so that splitting, joining, path parsing and     *)
(* formatting are computed character by character as the code and the      *)
(* standard library compute them.  Option values are records               *)
(* [some |-> ...], Result values are records [ok |-> ...].                 *)
(***************************************************************************)
EXTENDS Integers, Sequences, FiniteSets

VARIABLES
    fs,             \* the file system: path -> contents, or NoFile
    selected_file,  \* VCardGenerator.selected_file : Option<String>
    pc,             \* position inside VCardGenerator::update / process_csv
    label,          \* the label update() shows in the current frame
    lines,          \* process_csv: let lines
    vcf_filename,   \* process_csv: let vcf_filename
    all_vcard,      \* process_csv: let all_vcard
    file_open,      \* write_file: the handle File::create returned is open
    result,         \* the io::Result process_csv returned last
    failed_at,      \* history: the step of process_csv that returned Err
    fs_start,       \* history: the file system when process_csv was entered
    chosen,         \* history: number of files chosen in the dialog
    runs,           \* history: number of calls of process_csv
    last_ok,        \* history: the files of the last Ok run of process_csv
    arg,            \* argument of a function applied on its own
    ret             \* what that function returned

vars == <<fs, selected_file, pc, label, lines, vcf_filename, all_vcard,
          file_open, result, failed_at, fs_start, chosen, runs, last_ok,
          arg, ret>>

(***************************************************************************)
(* Bounds of the model.                                                    *)
(***************************************************************************)
MaxFields == 7       \* longest row given to extract_vcard_data
MaxPathLen == 5      \* longest path given to build_output_path
MaxContentLen == 4   \* longest file given to read_csv_lines on its own
MaxFileLen == 3      \* longest input file of the pipeline
MaxUpdates == 2      \* files chosen in the dialog in one behaviour
MaxPartial == 1      \* most bytes a failing write_all gets out

(***************************************************************************)
(* Option and Result.                                                      *)
(***************************************************************************)
None == [some |-> FALSE]
Some(v) == [some |-> TRUE, val |-> v]
Ok(v) == [ok |-> TRUE, val |-> v]
Err(kind) == [ok |-> FALSE, kind |-> kind]
Unit == "()"
NotCalled == [called |-> FALSE]

(***************************************************************************)
(* Text helpers.                                                           *)
(***************************************************************************)
\* All texts over alphabet A of length at most n.
Texts(A, n) == UNION {[1..k -> A] : k \in 0..n}

\* First index of character c in s, 0 when absent.
IndexOf(s, c) ==
    IF \E i \in 1..Len(s) : s[i] = c
    THEN CHOOSE i \in 1..Len(s) : s[i] = c /\ \A j \in 1..(i-1) : s[j] # c
    ELSE 0

\* Last index of character c in s that is greater than from, 0 when absent.
LastIndexAfter(s, c, from) ==
    IF \E i \in (from+1)..Len(s) : s[i] = c
    THEN CHOOSE i \in (from+1)..Len(s) :
             s[i] = c /\ \A j \in (i+1)..Len(s) : s[j] # c
    ELSE 0

RECURSIVE Concat(_)
\* The concatenation of a sequence of texts.
Concat(ss) == IF ss = <<>> THEN <<>> ELSE Head(ss) \o Concat(Tail(ss))

NL == <<"\n">>

(***************************************************************************)
(* make_vcard (main.rs 63-76): ten writeln! calls appending to a String.   *)
(***************************************************************************)
\* writeln!(buf, ...) appends the formatted text and a newline.
writeln(buf, text) == buf \o text \o NL

T_BEGIN == <<"B","E","G","I","N",":","V","C","A","R","D">>
T_VERSION == <<"V","E","R","S","I","O","N",":","2",".","1">>
T_N == <<"N",":">>
T_FN == <<"F","N",":">>
T_EMAIL == <<"E","M","A","I","L",";","P","R","E","F",";","I","N","T","E","R","N","E","T",":">>
T_TEL == <<"T","E","L",";","H","O","M","E",";","V","O","I","C","E",":">>
T_NOTE == <<"N","O","T","E",":">>
T_REV == <<"R","E","V",":","1">>
T_END == <<"E","N","D",":","V","C","A","R","D">>

\* A make_vcard that writes the mobile number before the home number.
make_vcard_swapped(first_name, last_name, tel, mobile, email, note) ==
    LET v1 == writeln(<<>>, T_BEGIN)
        v2 == writeln(v1, T_VERSION)
        v3 == writeln(v2, T_N \o last_name \o <<";">> \o first_name)
        v4 == writeln(v3, T_FN \o first_name \o <<" ">> \o last_name)
        v5 == writeln(v4, T_EMAIL \o email)
        v6 == writeln(v5, T_TEL \o mobile)
        v7 == writeln(v6, T_TEL \o tel)
        v8 == writeln(v7, T_NOTE \o note)
        v9 == writeln(v8, T_REV)
    IN  writeln(v9, T_END)

make_vcard(first_name, last_name, tel, mobile, email, note) ==
    LET v1 == writeln(<<>>, T_BEGIN)
        v2 == writeln(v1, T_VERSION)
        v3 == writeln(v2, T_N \o last_name \o <<";">> \o first_name)
        v4 == writeln(v3, T_FN \o first_name \o <<" ">> \o last_name)
        v5 == writeln(v4, T_EMAIL \o email)
        v6 == writeln(v5, T_TEL \o tel)
        v7 == writeln(v6, T_TEL \o mobile)
        v8 == writeln(v7, T_NOTE \o note)
        v9 == writeln(v8, T_REV)
    IN  writeln(v9, T_END)

(***************************************************************************)
(* extract_vcard_data (main.rs 134-145).                                   *)
(***************************************************************************)
\* slice.get(i).map(|s| s.as_str()), i counted from 0.
get(v, i) == IF i < Len(v) THEN Some(v[i + 1]) ELSE None

\* Option::unwrap_or.
unwrap_or(o, d) == IF o.some THEN o.val ELSE d

extract_vcard_data(vcard_data) ==
    IF ~get(vcard_data, 0).some
    THEN Err("InvalidInput")
    ELSE LET first  == get(vcard_data, 0).val
             last   == unwrap_or(get(vcard_data, 1), <<>>)
             tel    == unwrap_or(get(vcard_data, 2), <<>>)
             mobile == unwrap_or(get(vcard_data, 3), <<>>)
             email  == unwrap_or(get(vcard_data, 4), <<>>)
             note   == unwrap_or(get(vcard_data, 5), <<>>)
         IN  Ok(make_vcard(first, last, tel, mobile, email, note))

(***************************************************************************)
(* The file system.  A path holds a regular file (its contents, a text),   *)
(* a directory (IsDir) or nothing (NoFile).                                *)
(***************************************************************************)
NoFile == [kind |-> "none"]
IsDir == [kind |-> "dir"]
File(contents) == [kind |-> "file", contents |-> contents]

\* File::open(filename)? then file.read_to_string(&mut contents)?
\* (main.rs 228, 232): opening a missing path fails, reading a directory
\* fails, a regular file gives its contents.
read_to_string(files, filename) ==
    IF filename \notin DOMAIN files \/ files[filename].kind = "none"
    THEN Err("NotFound")
    ELSE IF files[filename].kind = "dir"
    THEN Err("IsADirectory")
    ELSE Ok(files[filename].contents)

(***************************************************************************)
(* str::lines and str::split of the standard library, as read_csv_lines    *)
(* uses them (main.rs 233, 237).                                           *)
(***************************************************************************)
RECURSIVE split_inclusive(_)
\* The pieces of s, each ending with its "\n", the last one possibly not.
split_inclusive(s) ==
    IF s = <<>> THEN <<>>
    ELSE LET i == IndexOf(s, "\n")
         IN  IF i = 0 THEN <<s>>
             ELSE <<SubSeq(s, 1, i)>> \o split_inclusive(SubSeq(s, i + 1, Len(s)))

\* A line loses its "\n", and then a "\r" that came right before it.
strip_line_ending(piece) ==
    IF piece # <<>> /\ piece[Len(piece)] = "\n"
    THEN LET l == SubSeq(piece, 1, Len(piece) - 1)
         IN  IF l # <<>> /\ l[Len(l)] = "\r"
             THEN SubSeq(l, 1, Len(l) - 1)
             ELSE l
    ELSE piece

str_lines(s) ==
    LET pieces == split_inclusive(s)
    IN  [i \in 1..Len(pieces) |-> strip_line_ending(pieces[i])]

RECURSIVE split(_, _)
\* str::split(c): the texts between the occurrences of c, at least one.
split(s, c) ==
    LET i == IndexOf(s, c)
    IN  IF i = 0 THEN <<s>>
        ELSE <<SubSeq(s, 1, i - 1)>> \o split(SubSeq(s, i + 1, Len(s)), c)

(***************************************************************************)
(* read_csv_lines (main.rs 227-246).                                       *)
(***************************************************************************)
\* A loop body that does not skip the empty lines.
row_of_line_keep_empty(i, line) ==
    IF i = 0 THEN <<>> ELSE <<split(line, ",")>>

\* A loop body that does not skip the first line.
row_of_line_keep_header(i, line) ==
    LET split_values == split(line, ",")
    IN  IF Len(split_values) = 1 /\ split_values[1] = <<>>
        THEN <<>>
        ELSE <<split_values>>

\* The body of the for loop for the line at index i (from 0): the rows it
\* pushes onto records.
row_of_line(i, line) ==
    IF i = 0 THEN <<>>
    ELSE LET split_values == split(line, ",")
         IN  IF Len(split_values) = 1 /\ split_values[1] = <<>>
             THEN <<>>
             ELSE <<split_values>>

\* The loop over contents.lines().enumerate().
records_of(contents) ==
    LET ls == str_lines(contents)
    IN  Concat([k \in 1..Len(ls) |-> row_of_line(k - 1, ls[k])])

read_csv_lines(files, filename) ==
    LET contents == read_to_string(files, filename)
    IN  IF ~contents.ok THEN contents
        ELSE Ok(records_of(contents.val))

(***************************************************************************)
(* std::path of the standard library on Unix, as build_output_path uses    *)
(* it (main.rs 286-291).  A path is parsed from its text: repeated         *)
(* separators, a trailing separator and "." components other than a       *)
(* leading one are skipped.                                                *)
(***************************************************************************)
has_root(p) == p # <<>> /\ p[1] = "/"

\* A leading "." counts as the CurDir component.
include_cur_dir(p) ==
    /\ ~has_root(p)
    /\ p # <<>> /\ p[1] = "."
    /\ (Len(p) = 1 \/ p[2] = "/")

len_before_body(p) ==
    (IF has_root(p) THEN 1 ELSE 0) + (IF include_cur_dir(p) THEN 1 ELSE 0)

\* Components::parse_next_component_back: the text after the last separator
\* of the body, and the path left before it.
back_text(p) ==
    LET i == LastIndexAfter(p, "/", len_before_body(p))
    IN  IF i = 0 THEN SubSeq(p, len_before_body(p) + 1, Len(p))
        ELSE SubSeq(p, i + 1, Len(p))

back_rest(p) ==
    LET i == LastIndexAfter(p, "/", len_before_body(p))
    IN  IF i = 0 THEN SubSeq(p, 1, len_before_body(p))
        ELSE SubSeq(p, 1, i - 1)

\* parse_single_component gives no component for "" and ".".
skipped(text) == text = <<>> \/ text = <<".">>

RECURSIVE next_back(_)
\* Components::next_back on a fresh iterator: the last component, the path
\* left before it, and where the component ends in the text.
next_back(p) ==
    IF Len(p) > len_before_body(p)
    THEN IF skipped(back_text(p))
         THEN next_back(back_rest(p))
         ELSE [kind |-> IF back_text(p) = <<".", ".">> THEN "ParentDir" ELSE "Normal",
               text |-> back_text(p), rest |-> back_rest(p), end |-> Len(p)]
    ELSE IF has_root(p)
    THEN [kind |-> "RootDir", text |-> <<"/">>, rest |-> <<>>, end |-> 1]
    ELSE IF include_cur_dir(p)
    THEN [kind |-> "CurDir", text |-> <<".">>, rest |-> <<>>, end |-> 1]
    ELSE [kind |-> "None", text |-> <<>>, rest |-> <<>>, end |-> 0]

RECURSIVE trim_right(_)
\* Components::trim_right: drop the trailing separators and "." components.
trim_right(p) ==
    IF Len(p) > len_before_body(p) /\ skipped(back_text(p))
    THEN trim_right(back_rest(p))
    ELSE p

\* Path::parent.
parent(p) ==
    LET c == next_back(p)
    IN  IF c.kind \in {"Normal", "ParentDir"} THEN Some(trim_right(c.rest))
        ELSE IF c.kind = "CurDir" THEN Some(c.rest)
        ELSE None

\* A file_name that finds no name in a path ending with a separator.
file_name_trailing_sep(p) ==
    IF p # <<>> /\ p[Len(p)] = "/" THEN None
    ELSE LET c == next_back(p)
         IN  IF c.kind = "Normal" THEN Some(c.text) ELSE None

\* Path::file_name: the last component when it is a normal one.
file_name(p) ==
    LET c == next_back(p)
    IN  IF c.kind = "Normal" THEN Some(c.text) ELSE None

\* rsplit_file_at_dot followed by before.or(after): the name up to its last
\* dot, the whole name when it has no dot or only a leading one.
stem_of_name(name) ==
    LET i == LastIndexAfter(name, ".", 0)
    IN  IF i <= 1 THEN name ELSE SubSeq(name, 1, i - 1)

\* Path::file_stem.
file_stem(p) ==
    IF file_name(p).some THEN Some(stem_of_name(file_name(p).val)) ELSE None

\* PathBuf::push.
push(buf, path) ==
    IF has_root(path) THEN path
    ELSE IF buf # <<>> /\ buf[Len(buf)] # "/" THEN buf \o <<"/">> \o path
    ELSE buf \o path

\* PathBuf::set_extension: the buffer is cut right after its file stem and
\* "." and the extension are appended; a buffer with no file name is left
\* as it is.
set_extension(buf, extension) ==
    IF ~file_stem(buf).some THEN buf
    ELSE LET c == next_back(buf)
             end_file_stem == (c.end - Len(c.text)) + Len(file_stem(buf).val)
             cut == SubSeq(buf, 1, end_file_stem)
         IN  IF extension # <<>> THEN cut \o <<".">> \o extension ELSE cut

(***************************************************************************)
(* build_output_path (main.rs 284-294).                                    *)
(***************************************************************************)
build_output_path(input_path, output_extension) ==
    LET input_parent == unwrap_or(parent(input_path), <<".">>)
        csv_file_prefix == file_stem(input_path)
    IN  IF ~csv_file_prefix.some THEN Err("InvalidInput")
        ELSE Ok(set_extension(push(input_parent, csv_file_prefix.val),
                              output_extension))

(***************************************************************************)
(* [T]::join (main.rs 352).                                                *)
(***************************************************************************)
RECURSIVE join(_, _)
join(v, sep) ==
    IF v = <<>> THEN <<>>
    ELSE IF Len(v) = 1 THEN v[1]
    ELSE v[1] \o sep \o join(Tail(v), sep)

(***************************************************************************)
(* write_file (main.rs 178-182).  File::create makes the file or cuts it   *)
(* to no bytes; it fails on a directory, and when the system refuses       *)
(* (permissions, a read-only or full file system), which is io_ok = FALSE. *)
(***************************************************************************)
put(files, path, node) ==
    [p \in DOMAIN files \cup {path} |-> IF p = path THEN node ELSE files[p]]

node_at(files, path) == IF path \in DOMAIN files THEN files[path] ELSE NoFile

can_create(files, path, io_ok) == io_ok /\ node_at(files, path).kind # "dir"

\* File::create without O_TRUNC: an existing file keeps its bytes.
create_keep(files, path) ==
    IF node_at(files, path).kind = "file" THEN files ELSE put(files, path, File(<<>>))

create(files, path) == put(files, path, File(<<>>))

\* file.write_all(data) that got n bytes out: the bytes written replace the
\* first n bytes of the file, whose length was 0 after a truncating create.
write_bytes(files, path, data, n) ==
    LET old == node_at(files, path).contents
    IN  put(files, path,
            File(SubSeq(data, 1, n) \o SubSeq(old, n + 1, Len(old))))

(***************************************************************************)
(* process_csv (main.rs 348-353), step by step.                            *)
(***************************************************************************)
VCF == <<"v","c","f">>

RECURSIVE collect(_)
\* collect::<io::Result<Vec<String>>>(): the first Err, else all the values.
collect(rs) ==
    IF rs = <<>> THEN Ok(<<>>)
    ELSE IF ~Head(rs).ok THEN Head(rs)
    ELSE LET rest == collect(Tail(rs))
         IN  IF rest.ok THEN Ok(<<Head(rs).val>> \o rest.val) ELSE rest

map_rows(rows) == collect([k \in 1..Len(rows) |-> extract_vcard_data(rows[k])])

\* A join with no separator.
join_cards_nosep(cards) == Concat(cards)

join_cards(cards) == join(cards, NL)

Locals == <<lines, vcf_filename, all_vcard, file_open>>
History == <<chosen, last_ok>>
Pure == <<arg, ret>>

\* process_csv returns Err from the step named step.
Fail(step, err) ==
    /\ result' = err
    /\ failed_at' = step
    /\ pc' = "ret"

ReadStep ==
    /\ pc = "read"
    /\ runs' = runs + 1
    /\ fs_start' = fs
    /\ LET r == read_csv_lines(fs, selected_file.val)
       IN  IF r.ok
           THEN /\ lines' = r.val
                /\ pc' = "path"
                /\ result' = NotCalled
                /\ failed_at' = "none"
           ELSE /\ Fail("read", r)
                /\ UNCHANGED lines
    /\ UNCHANGED <<fs, selected_file, label, vcf_filename, all_vcard, file_open>>
    /\ UNCHANGED <<History, Pure>>

PathStep ==
    /\ pc = "path"
    /\ LET r == build_output_path(selected_file.val, VCF)
       IN  IF r.ok
           THEN /\ vcf_filename' = r.val
                /\ pc' = "map"
                /\ UNCHANGED <<result, failed_at>>
           ELSE /\ Fail("path", r)
                /\ UNCHANGED vcf_filename
    /\ UNCHANGED <<fs, selected_file, label, lines, all_vcard, file_open>>
    /\ UNCHANGED <<fs_start, runs, History, Pure>>

\* The map step of a process_csv that creates the output file before it maps.
MapStepCreatesFile ==
    /\ pc = "map"
    /\ fs' = create(fs, vcf_filename)
    /\ LET r == map_rows(lines)
       IN  IF r.ok
           THEN /\ all_vcard' = r.val
                /\ pc' = "create"
                /\ UNCHANGED <<result, failed_at>>
           ELSE /\ Fail("map", r)
                /\ UNCHANGED all_vcard
    /\ UNCHANGED <<selected_file, label, lines, vcf_filename, file_open>>
    /\ UNCHANGED <<fs_start, runs, History, Pure>>

MapStep ==
    /\ pc = "map"
    /\ LET r == map_rows(lines)
       IN  IF r.ok
           THEN /\ all_vcard' = r.val
                /\ pc' = "create"
                /\ UNCHANGED <<result, failed_at>>
           ELSE /\ Fail("map", r)
                /\ UNCHANGED all_vcard
    /\ UNCHANGED <<fs, selected_file, label, lines, vcf_filename, file_open>>
    /\ UNCHANGED <<fs_start, runs, History, Pure>>

\* write_file: let mut file = File::create(filename)?
CreateStep ==
    /\ pc = "create"
    /\ \E io_ok \in BOOLEAN :
          IF can_create(fs, vcf_filename, io_ok)
          THEN /\ fs' = create(fs, vcf_filename)
               /\ file_open' = TRUE
               /\ pc' = "write_all"
               /\ UNCHANGED <<result, failed_at>>
          ELSE /\ Fail("write", Err("CreateFailed"))
               /\ UNCHANGED <<fs, file_open>>
    /\ UNCHANGED <<selected_file, label, lines, vcf_filename, all_vcard>>
    /\ UNCHANGED <<fs_start, runs, History, Pure>>

\* write_file: file.write_all(data.as_ref())?; Ok(()) with data the join of
\* the cards.  Either every byte is written, or the system fails the write
\* after some n < Len(data) bytes (n <= MaxPartial in this model).  The
\* handle is closed on both paths.
WriteAllStep ==
    /\ pc = "write_all"
    /\ LET data == join_cards(all_vcard)
       IN  \E n \in {k \in 0..Len(data) : k = Len(data) \/ k <= MaxPartial} :
              /\ fs' = write_bytes(fs, vcf_filename, data, n)
              /\ IF n = Len(data)
                 THEN /\ result' = Ok(Unit)
                      /\ pc' = "ret"
                      /\ UNCHANGED failed_at
                 ELSE Fail("write", Err("WriteFailed"))
    /\ file_open' = FALSE
    /\ UNCHANGED <<selected_file, label, lines, vcf_filename, all_vcard>>
    /\ UNCHANGED <<fs_start, runs, History, Pure>>

(***************************************************************************)
(* VCardGenerator::update (main.rs 403-420): one frame of the window.      *)
(***************************************************************************)
NoLabel == "-"
DoneLabel == "Done !"
InvalidLabel == "Invalid input file"

CsvPath == <<"d","/","a",".","c","s","v">>
VcfPath == <<"d","/","a",".","v","c","f">>
DottedPath == <<"d","/","a",".","b",".","c","s","v">>
DottedContents == <<"h","\n","b",",","b","\n","a">>
FileChars == {"a", ",", "\n"}
FileContents == Texts(FileChars, MaxFileLen)
Stale == <<"o","l","d">>

\* What the user can choose in the dialog.
DialogPaths == {CsvPath, DottedPath}

\* The frame up to "if let Some(file) = &self.selected_file", with sel the
\* value of selected_file there: a label of an earlier frame is gone, and
\* process_csv is entered when a file is selected.
BeginFrame(sel) ==
    /\ pc = "idle"
    /\ selected_file' = sel
    /\ label' = NoLabel
    /\ pc' = IF sel.some THEN "read" ELSE "idle"
    /\ UNCHANGED <<fs, result, failed_at, fs_start, runs, last_ok>>
    /\ UNCHANGED <<Locals, Pure>>

\* The button is not clicked in this frame.
UpdateNoClick ==
    /\ BeginFrame(selected_file)
    /\ UNCHANGED chosen

\* The button is clicked and the dialog is closed without a file.
UpdateClickCancel ==
    /\ BeginFrame(selected_file)
    /\ UNCHANGED chosen

\* The button is clicked and the dialog returns path.
UpdateClickPick(path) ==
    /\ chosen < MaxUpdates
    /\ BeginFrame(Some(path))
    /\ chosen' = chosen + 1

\* What ends with the call of process_csv: its locals are dropped, and the
\* history of the run is closed.
EndOfCall ==
    /\ lines' = <<>>
    /\ vcf_filename' = <<>>
    /\ all_vcard' = <<>>
    /\ fs_start' = fs
    /\ last_ok' = IF result.ok
                  THEN Some([path |-> selected_file.val,
                             input |-> fs[selected_file.val],
                             before |-> fs_start[vcf_filename],
                             output |-> fs[vcf_filename]])
                  ELSE last_ok
    /\ UNCHANGED <<fs, file_open, result, failed_at, chosen, runs, Pure>>

\* process_csv has returned: the label, without the reset of selected_file.
FinishNoReset ==
    /\ pc = "ret"
    /\ label' = IF result.ok THEN DoneLabel ELSE InvalidLabel
    /\ pc' = "idle"
    /\ EndOfCall
    /\ UNCHANGED selected_file

\* process_csv has returned: the label, then self.selected_file = None.
Finish ==
    /\ pc = "ret"
    /\ label' = IF result.ok THEN DoneLabel ELSE InvalidLabel
    /\ selected_file' = None
    /\ pc' = "idle"
    /\ EndOfCall

\* VCardGenerator::default(), and the files the program finds.
IdleFields ==
    /\ selected_file = None
    /\ pc = "idle"
    /\ label = NoLabel
    /\ lines = <<>>
    /\ vcf_filename = <<>>
    /\ all_vcard = <<>>
    /\ file_open = FALSE
    /\ result = NotCalled
    /\ failed_at = "none"
    /\ chosen = 0
    /\ runs = 0
    /\ last_ok = None

Init ==
    /\ \E input \in {File(c) : c \in FileContents} \cup {IsDir, NoFile} :
       \E output \in {NoFile, File(Stale)} :
          fs = [p \in {CsvPath, DottedPath, VcfPath} |->
                  IF p = CsvPath THEN input
                  ELSE IF p = DottedPath THEN File(DottedContents)
                  ELSE output]
    /\ fs_start = fs
    /\ IdleFields
    /\ arg = NotCalled
    /\ ret = NotCalled

Next ==
    \/ UpdateNoClick
    \/ UpdateClickCancel
    \/ \E path \in DialogPaths : UpdateClickPick(path)
    \/ ReadStep
    \/ PathStep
    \/ MapStep
    \/ CreateStep
    \/ WriteAllStep
    \/ Finish

Spec == Init /\ [][Next]_vars

(***************************************************************************)
(* The functions applied on their own, to arguments drawn from bounded     *)
(* sets.                                                                   *)
(***************************************************************************)
FieldVals == {<<>>, <<"a">>, <<"b">>}
Rows == UNION {[1..k -> FieldVals] : k \in 0..MaxFields}

PathChars == {"a", "b", ".", "/"}
Paths == Texts(PathChars, MaxPathLen)
Extensions == {VCF, <<"v">>}

ContentChars == {"a", ",", "\n", "\r"}
Contents == Texts(ContentChars, MaxContentLen)

InitCard ==
    /\ arg \in {[vcard_data |-> r] : r \in Rows}
    /\ ret = NotCalled
    /\ fs = [p \in {} |-> NoFile]
    /\ fs_start = fs
    /\ IdleFields

CallExtractVcardData ==
    /\ ret = NotCalled
    /\ ret' = extract_vcard_data(arg.vcard_data)
    /\ UNCHANGED <<fs, selected_file, pc, label, result, failed_at, fs_start,
                   runs, arg>>
    /\ UNCHANGED <<Locals, History>>

SpecCard == InitCard /\ [][CallExtractVcardData]_vars

InitPath ==
    /\ arg \in {[input_path |-> p, output_extension |-> e] :
                    p \in Paths, e \in Extensions}
    /\ ret = NotCalled
    /\ fs = [p \in {} |-> NoFile]
    /\ fs_start = fs
    /\ IdleFields

CallBuildOutputPath ==
    /\ ret = NotCalled
    /\ ret' = build_output_path(arg.input_path, arg.output_extension)
    /\ UNCHANGED <<fs, selected_file, pc, label, result, failed_at, fs_start,
                   runs, arg>>
    /\ UNCHANGED <<Locals, History>>

SpecPath == InitPath /\ [][CallBuildOutputPath]_vars

InitRead ==
    /\ arg = [filename |-> CsvPath]
    /\ ret = NotCalled
    /\ \E node \in {File(c) : c \in Contents} \cup {IsDir, NoFile} :
          fs = [p \in {CsvPath} |-> node]
    /\ fs_start = fs
    /\ IdleFields

CallReadCsvLines ==
    /\ ret = NotCalled
    /\ ret' = read_csv_lines(fs, arg.filename)
    /\ UNCHANGED <<fs, selected_file, pc, label, result, failed_at, fs_start,
                   runs, arg>>
    /\ UNCHANGED <<Locals, History>>

SpecRead == InitRead /\ [][CallReadCsvLines]_vars

(***************************************************************************)
(* Properties of the functions applied on their own.                       *)
(***************************************************************************)
Called == ret # NotCalled

\* The field at index i (from 0) of row f, the empty text when f is shorter.
FieldAt(f, i) == IF i < Len(f) THEN f[i + 1] ELSE <<>>

\* The ten lines of the card of row f, as the card format lists them.
TenLines(f) ==
    << T_BEGIN,
       T_VERSION,
       T_N \o FieldAt(f, 1) \o <<";">> \o FieldAt(f, 0),
       T_FN \o FieldAt(f, 0) \o <<" ">> \o FieldAt(f, 1),
       T_EMAIL \o FieldAt(f, 4),
       T_TEL \o FieldAt(f, 2),
       T_TEL \o FieldAt(f, 3),
       T_NOTE \o FieldAt(f, 5),
       T_REV,
       T_END >>

\* Each line followed by a newline, one after the other.
Terminated(ls) == Concat([i \in 1..Len(ls) |-> ls[i] \o NL])

FirstSix(f) == SubSeq(f, 1, IF Len(f) < 6 THEN Len(f) ELSE 6)

\* C1: for a row of n >= 1 fields extract_vcard_data returns the card made
\* of exactly the ten newline-terminated lines BEGIN:VCARD, VERSION:2.1,
\* N:f1;f0, FN:f0 f1, EMAIL;PREF;INTERNET:f4, TEL;HOME;VOICE:f2,
\* TEL;HOME;VOICE:f3, NOTE:f5, REV:1, END:VCARD, a missing field being the
\* empty text; the fields at index 6 and beyond change nothing in the card.
C1_CardIsTheTenLines ==
    (Called /\ Len(arg.vcard_data) >= 1) =>
        /\ ret.ok
        /\ ret.val = Terminated(TenLines(arg.vcard_data))
        /\ Len(str_lines(ret.val)) = 10
        /\ ret = extract_vcard_data(FirstSix(arg.vcard_data))

\* A row of seven fields, all six places filled and a seventh field that is
\* dropped, has been mapped.
C1_Witness ==
    /\ Called
    /\ arg.vcard_data = << <<"a">>, <<"b">>, <<"a">>, <<"b">>, <<"b">>, <<"a">>, <<"b">> >>
    /\ ret.ok

\* A row of two fields has been mapped: four missing fields.
C1_WitnessShort ==
    /\ Called
    /\ arg.vcard_data = << <<"a">>, <<"b">> >>
    /\ ret.ok

\* C6: extract_vcard_data never fails: for every field-sequence of any
\* length, the empty one included, it returns a card and not an error.
C6_MapperNeverFails == Called => ret.ok

\* The path the claim promises for input p and extension e: the parent
\* directory of p ("." when p has none), then the stem of p, "." and e.
ClaimedOutput(p, e) ==
    LET dir == IF parent(p).some THEN parent(p).val ELSE <<".">>
        name == file_stem(p).val \o <<".">> \o e
    IN  IF dir = <<>> THEN name
        ELSE IF dir[Len(dir)] = "/" THEN dir \o name
        ELSE dir \o <<"/">> \o name

\* C2: for every input path with a file-name stem and every extension,
\* build_output_path returns parent-directory / (stem + "." + extension),
\* the stem being the file name minus only its final extension, kept whole
\* when it holds a dot itself.
C2_OutputIsParentStemExt ==
    (Called /\ file_stem(arg.input_path).some) =>
        /\ ret.ok
        /\ ret.val = ClaimedOutput(arg.input_path, arg.output_extension)

EndsWithSeparator(p) == p # <<>> /\ p[Len(p)] = "/"

IsNamedSegment(seg) == seg # <<>> /\ seg # <<".">>

\* Read from the text of p alone: among its segments between separators,
\* the empty ones and the "." ones left out, there is none, or the last
\* one is "..".
HasNoFileName(p) ==
    LET segs == SelectSeq(split(p, "/"), IsNamedSegment)
    IN  segs = <<>> \/ segs[Len(segs)] = <<".", ".">>

\* C3 as stated: build_output_path fails with an invalid-input error
\* exactly when the input has no file-name stem, which includes the empty
\* path and every path that ends in a separator.
C3_FailsOnTrailingSeparator ==
    Called =>
        /\ ~ret.ok <=> ~file_stem(arg.input_path).some
        /\ (arg.input_path = <<>> \/ EndsWithSeparator(arg.input_path)) => ~ret.ok
        /\ ~ret.ok => ret = Err("InvalidInput")

\* C3 as amended: build_output_path fails, with an invalid-input error,
\* exactly when the input has no file name: when, empty and "." segments
\* left out, no segment is left (the empty path, "/", ".") or the last one
\* is "..".  A trailing separator alone does not make it fail: the path
\* "a/" gives "a.<extension>".
C3_FailsIffNoFileName ==
    Called =>
        /\ ~ret.ok <=> HasNoFileName(arg.input_path)
        /\ arg.input_path = <<>> => ~ret.ok
        /\ ~ret.ok => ret = Err("InvalidInput")
        /\ (EndsWithSeparator(arg.input_path) /\ ~HasNoFileName(arg.input_path))
              => ret.ok

\* A path that ends in a separator has been given and a path came back.
C3_Witness ==
    /\ Called
    /\ arg.input_path = <<"a", "/">>
    /\ ret = Ok(<<"a", ".">> \o arg.output_extension)

\* A path with no file name has been given and the error came back.
C3_WitnessErr ==
    /\ Called
    /\ arg.input_path = <<"a", "/", ".", ".">>
    /\ ret = Err("InvalidInput")

IsNonEmpty(t) == t # <<>>

Count(t, c) == Cardinality({i \in 1..Len(t) : t[i] = c})

\* The lines of the file read in SpecRead that follow the first one and are
\* not the empty text.
KeptLines ==
    LET ls == str_lines(fs[CsvPath].contents)
    IN  SelectSeq(IF ls = <<>> THEN <<>> ELSE Tail(ls), IsNonEmpty)

\* C9: read_csv_lines returns, for the lines after the first in file order,
\* one row per line that is not the empty text, the row being the line cut
\* at every comma: k commas give k+1 fields, empty fields are kept, putting
\* the commas back gives the line again; no returned row is empty or the
\* single empty field.
C9_RowsAreTheSplitLines ==
    (Called /\ fs[CsvPath].kind = "file") =>
        /\ ret.ok
        /\ Len(ret.val) = Len(KeptLines)
        /\ \A k \in 1..Len(ret.val) :
              /\ join(ret.val[k], <<",">>) = KeptLines[k]
              /\ Len(ret.val[k]) = Count(KeptLines[k], ",") + 1
              /\ Len(ret.val[k]) >= 1
              /\ ret.val[k] # << <<>> >>
              /\ \A j \in 1..Len(ret.val[k]) :
                    /\ Count(ret.val[k][j], ",") = 0
                    /\ Count(ret.val[k][j], "\n") = 0

\* A file with a first line, an empty line and the line "a," has been read:
\* one row, of the two fields "a" and "".
C9_Witness ==
    /\ Called
    /\ fs[CsvPath] = File(<<"\n", "\n", "a", ",">>)
    /\ ret = Ok(<< << <<"a">>, <<>> >> >>)

(***************************************************************************)
(* Properties of process_csv and of update.  In a state with pc = "ret"    *)
(* process_csv has just returned result for the file selected_file.val,    *)
(* and fs_start is the file system it was entered with.                    *)
(***************************************************************************)
Returned == pc = "ret"

InputReadable == fs_start[selected_file.val].kind = "file"

InputContents == fs_start[selected_file.val].contents

\* The text after the first line ending of c, empty when c has none.
BodyOf(c) ==
    IF IndexOf(c, "\n") = 0 THEN <<>>
    ELSE SubSeq(c, IndexOf(c, "\n") + 1, Len(c))

\* The rows of c read from its body alone: its lines that are not empty,
\* cut at the commas.
BodyRows(c) ==
    LET ls == SelectSeq(str_lines(BodyOf(c)), IsNonEmpty)
    IN  [k \in 1..Len(ls) |-> split(ls[k], ",")]

\* The card blocks of the rows of c, in order.
Blocks(c) == [k \in 1..Len(BodyRows(c)) |-> Terminated(TenLines(BodyRows(c)[k]))]

\* The blocks with one newline between each two.
ExpectedText(c) == join(Blocks(c), NL)

HeaderOnly(c) == Len(str_lines(c)) <= 1

Headers == {<<>>, <<"a">>, <<"a", ",", "a">>, <<",">>}

\* The first line of a readable input never contributes: the rows read and
\* the text written are those of the body alone, and stay the same under
\* any other first line.
FirstLineIgnored ==
    (pc \in {"path", "map", "create", "write_all", "ret"} /\ InputReadable
        /\ (Returned => failed_at # "read")) =>
        /\ lines = BodyRows(InputContents)
        /\ IndexOf(InputContents, "\n") # 0 =>
              \A h \in Headers : records_of(h \o NL \o BodyOf(InputContents)) = lines
        /\ (Returned /\ result.ok) =>
              fs[vcf_filename] = File(ExpectedText(InputContents))

\* C4 as stated: the first line of a readable input never contributes to
\* the output, and when the file holds only that first line, or nothing,
\* the pipeline succeeds and the output file exists and is empty.
C4_HeaderOnlyAlwaysSucceeds ==
    /\ FirstLineIgnored
    /\ (Returned /\ InputReadable /\ HeaderOnly(InputContents)) =>
          /\ result.ok
          /\ fs[vcf_filename] = File(<<>>)

\* C4 as amended: the first line of a readable input never contributes to
\* the output; when the file holds only that first line, or nothing, the
\* pipeline reaches the writer with the empty text: it succeeds and leaves
\* the output file existing and empty whenever the output file can be
\* created, and else returns the creation error with no file changed.
C4_HeaderOnlyGivesEmptyFile ==
    /\ FirstLineIgnored
    /\ (Returned /\ InputReadable /\ HeaderOnly(InputContents)) =>
          \/ result.ok /\ fs[vcf_filename] = File(<<>>)
          \/ result = Err("CreateFailed") /\ failed_at = "write" /\ fs = fs_start

\* A file made of the one line "a,a", which looks like a row, has been
\* processed: the run succeeded and the output, which held other bytes
\* before, is empty.
C4_Witness ==
    /\ Returned
    /\ result.ok
    /\ fs_start[CsvPath] = File(<<"a", ",", "a">>)
    /\ selected_file = Some(CsvPath)
    /\ fs_start[VcfPath] = File(Stale)
    /\ fs[VcfPath] = File(<<>>)

\* The lines of the output file after an Ok run.
OutputLines == str_lines(fs[vcf_filename].contents)

RECURSIVE Flatten(_)
Flatten(lss) == IF lss = <<>> THEN <<>> ELSE Head(lss) \o Flatten(Tail(lss))

\* C5 as stated: after an Ok run the output is one card per retained row in
\* file order, and after the END:VCARD line of a block the next line is the
\* BEGIN:VCARD of the following block, with no blank line in between.
C5_NoBlankLineBetweenBlocks ==
    (Returned /\ result.ok) =>
        OutputLines = Flatten([k \in 1..Len(BodyRows(InputContents)) |->
                                   TenLines(BodyRows(InputContents)[k])])

\* The lines of the blocks of rows, with one empty line after each block
\* but the last.
BlocksWithBlankLines(rows) ==
    Flatten([k \in 1..Len(rows) |->
                IF k < Len(rows) THEN TenLines(rows[k]) \o << <<>> >>
                ELSE TenLines(rows[k])])

EndsWithBlankLine(t) ==
    Len(t) >= 2 /\ t[Len(t)] = "\n" /\ t[Len(t) - 1] = "\n"

\* C5 as amended: after an Ok run the output is one card per retained row,
\* in file order, none dropped, repeated or moved, and the join puts one
\* newline after each block but the last: as each block ends with its own
\* newline, the END:VCARD line of a block is followed by exactly one empty
\* line and then the BEGIN:VCARD of the next block; nothing follows the
\* last block.
C5_OneBlankLineBetweenBlocks ==
    (Returned /\ result.ok) =>
        /\ OutputLines = BlocksWithBlankLines(BodyRows(InputContents))
        /\ ~EndsWithBlankLine(fs[vcf_filename].contents)
        /\ Len(SelectSeq(OutputLines, LAMBDA l : l = T_BEGIN)) = Len(lines)
        /\ Len(SelectSeq(OutputLines, LAMBDA l : l = T_END)) = Len(lines)

\* A file of two different rows has been processed with success.
C5_Witness ==
    /\ Returned
    /\ result.ok
    /\ Len(lines) = 2
    /\ lines[1] # lines[2]

\* C7: after a successful write the output file holds exactly the joined
\* card text, whatever it held before, also when the new text is shorter;
\* so a second Ok run on the same unchanged input leaves the very bytes the
\* earlier Ok run left.
C7_OutputIsExactlyTheJoinedText ==
    (Returned /\ result.ok) =>
        /\ fs[vcf_filename] = File(join(all_vcard, NL))
        /\ \A p \in DOMAIN fs \ {vcf_filename} : fs[p] = fs_start[p]
        /\ (last_ok.some /\ last_ok.val.path = selected_file.val
               /\ last_ok.val.input = fs[selected_file.val])
              => fs[vcf_filename] = last_ok.val.output

\* A second Ok run on an unchanged input has left what the first Ok run
\* left, and that first run had found an output file longer than the text
\* it wrote.
C7_Witness ==
    /\ Returned
    /\ result.ok
    /\ last_ok.some
    /\ last_ok.val.path = selected_file.val
    /\ last_ok.val.input = fs[selected_file.val]
    /\ last_ok.val.before = File(Stale)
    /\ Len(last_ok.val.output.contents) < Len(Stale)
    /\ fs[vcf_filename] = last_ok.val.output

\* C8: process_csv reads the rows, derives the output path, maps every row
\* and writes, in this order; it stops at the first step that fails and
\* returns its error; the output file is created or cut only once reading,
\* path derivation and the mapping of every row have succeeded, and a
\* failure before that leaves the file system as it was.
C8_WriteComesLast ==
    /\ pc \in {"path", "map", "create"} => fs = fs_start
    /\ pc \in {"map", "create", "write_all"} =>
          build_output_path(selected_file.val, VCF) = Ok(vcf_filename)
    /\ pc \in {"path", "map", "create", "write_all"} =>
          read_csv_lines(fs_start, selected_file.val) = Ok(lines)
    /\ pc \in {"create", "write_all"} => map_rows(lines) = Ok(all_vcard)
    /\ fs # fs_start => pc \in {"write_all", "ret", "idle", "read"}
    /\ (Returned /\ ~result.ok) =>
          /\ failed_at \in {"read", "path", "map", "write"}
          /\ failed_at = "read" =>
                /\ result = read_csv_lines(fs_start, selected_file.val)
                /\ fs = fs_start
          /\ failed_at = "path" =>
                /\ read_csv_lines(fs_start, selected_file.val).ok
                /\ result = build_output_path(selected_file.val, VCF)
                /\ fs = fs_start
          /\ failed_at = "map" =>
                /\ read_csv_lines(fs_start, selected_file.val).ok
                /\ build_output_path(selected_file.val, VCF).ok
                /\ result = map_rows(lines)
                /\ fs = fs_start
          /\ failed_at = "write" =>
                /\ read_csv_lines(fs_start, selected_file.val).ok
                /\ build_output_path(selected_file.val, VCF).ok
                /\ map_rows(lines).ok
    /\ (Returned /\ result.ok) => failed_at = "none"

\* A run has failed in its first step, reading: the output file of an
\* earlier run is still there, untouched.
C8_Witness ==
    /\ Returned
    /\ ~result.ok
    /\ failed_at = "read"
    /\ fs[VcfPath].kind = "file"
    /\ fs[VcfPath].contents # <<>>
    /\ fs = fs_start

\* C10, in every state: between two frames no file is selected and every
\* file chosen so far has been processed exactly once; inside a frame the
\* run of the file chosen in it is the only one not yet counted; a label
\* shown is the one of the last result.
C10_State ==
    /\ pc = "idle" => (selected_file = None /\ runs = chosen)
    /\ pc = "read" => (selected_file.some /\ runs + 1 = chosen)
    /\ pc \notin {"idle", "read"} => (selected_file.some /\ runs = chosen)
    /\ label \in {NoLabel, DoneLabel, InvalidLabel}
    /\ label # NoLabel =>
          (pc = "idle" /\ label = IF result.ok THEN DoneLabel ELSE InvalidLabel)

\* C10, in every step: choosing a file enters process_csv for it in the
\* same frame; the frame ends only once it returned, showing "Done !" for
\* Ok and "Invalid input file" for every error, with no file selected; a
\* frame without a choice runs nothing.
C10_Step ==
    /\ chosen' # chosen => (selected_file'.some /\ pc' = "read")
    /\ runs' # runs => (runs' = runs + 1 /\ chosen = runs' /\ pc = "read")
    /\ (pc # "idle" /\ pc' = "idle") =>
          /\ pc = "ret"
          /\ label' = IF result.ok THEN DoneLabel ELSE InvalidLabel
          /\ selected_file' = None
          /\ result' = result
    /\ (pc = "idle" /\ chosen' = chosen) => (pc' = "idle" /\ runs' = runs)

\* C10: every file chosen in the dialog triggers exactly one run of
\* process_csv, in the update step in which it was chosen; that step shows
\* "Done !" if the run succeeded and the same "Invalid input file" for
\* every kind of failure; selected_file is None at the end of every update
\* step, so no later update processes a file again without a new choice.
C10_OneRunPerChoice == []C10_State /\ [][C10_Step]_vars

\* Two files have been chosen and processed, the second run failed in the
\* writer, and the frame ended with the generic message and no selection.
C10_Witness ==
    /\ pc = "idle"
    /\ chosen = 2
    /\ runs = 2
    /\ label = InvalidLabel
    /\ failed_at = "write"
    /\ selected_file = None

====
